---- MODULE Spec2Model ----
(***************************************************************************)
(* Model of app.montecarlo.py: interval-label cleaning and parsing, the    *)
(* cumulative-range sampler get_simulation_value, the period loop of       *)
(* run_monte_carlo_simulation and its st.cache_data result cache.          *)
(*                                                                         *)
(* A label is a sequence of characters, each character a one-element       *)
(* string.  The non-ASCII characters of the source are named:              *)
(*   "EN" = U+2013 en dash, "EM" = U+2014 em dash, "A_CIRC" = U+00E2.      *)
(* A cumulative percentage ('Prob Kumulatif * 100', a float) is held in    *)
(* tenths of a percent, so 59.5 is 595.                                    *)
(***************************************************************************)
EXTENDS Integers, Sequences, FiniteSets, TLC

VARIABLES
    pc,                  \* position of the modelled call
    label,               \* interval_str given to clean_interval_string
    cleaned,             \* interval (line 129)
    parsed,              \* a, b (line 130)
    value,               \* value returned for the matched row (lines 131-134)
    table,               \* df given to get_simulation_value
    draw,                \* random_number
    result,              \* return value of get_simulation_value
    ranges,              \* the 'Interval Angka Acak' column (lines 97-102)
    dict,                \* _distribusi_dict
    num_simulations,     \* num_simulations
    i,                   \* loop index of line 147
    simulation_results,  \* simulation_results (line 143)
    returned,            \* what the caller of run_monte_carlo_simulation got
    cache                \* st.cache_data entries of run_monte_carlo_simulation

vars == <<pc, label, cleaned, parsed, value, table, draw, result, ranges, dict,
          num_simulations, i, simulation_results, returned, cache>>

(***************************************************************************)
(* Bounds of the model.                                                    *)
(***************************************************************************)
MaxLabelLen == 4
MaxRows == 2
MaxPeriods == 2

(***************************************************************************)
(* Characters.                                                             *)
(***************************************************************************)
Digits == <<"0", "1", "2", "3", "4", "5", "6", "7", "8", "9">>

IsDigit(c) == \E k \in 1..Len(Digits) : Digits[k] = c

DigitValue(c) == (CHOOSE k \in 1..Len(Digits) : Digits[k] = c) - 1

\* The characters labels are enumerated over.
LabelChars == {"0", "1", "-", "EN", "EM", "A_CIRC", " ", ",", "x", "+"}

\* The example of clean_interval_string's docstring: '103(a-circumflex)-130'.
DocLabel == <<"1", "0", "3", "A_CIRC", "-", "1", "3", "0">>

DocCleaned == <<"1", "0", "3", "-", "1", "3", "0">>

Labels == UNION {[1..n -> LabelChars] : n \in 0..MaxLabelLen} \cup {DocLabel}

(***************************************************************************)
(* str.replace on single characters.                                       *)
(***************************************************************************)
Replace(s, old, new) == [k \in 1..Len(s) |-> IF s[k] = old THEN new ELSE s[k]]

Remove(s, old) == SelectSeq(s, LAMBDA c : c # old)

\* A mutant of clean_interval_string: the em dash is not replaced.
clean_no_em_dash(interval_str) ==
    Remove(Remove(Replace(Replace(interval_str, "A_CIRC", "-"), "EN", "-"), " "), ",")

\* line 31
clean_interval_string(interval_str) ==
    Remove(Remove(Replace(Replace(Replace(interval_str,
        "A_CIRC", "-"), "EN", "-"), "EM", "-"), " "), ",")

(***************************************************************************)
(* str.split('-'): the pieces between hyphens, empty pieces kept.          *)
(***************************************************************************)
RECURSIVE SplitFrom(_, _, _, _)
SplitFrom(s, k, cur, acc) ==
    IF k > Len(s) THEN Append(acc, cur)
    ELSE IF s[k] = "-" THEN SplitFrom(s, k + 1, <<>>, Append(acc, cur))
    ELSE SplitFrom(s, k + 1, Append(cur, s[k]), acc)

split(s) == SplitFrom(s, 1, <<>>, <<>>)

(***************************************************************************)
(* int(token) on the characters of the model: an optional sign and one or  *)
(* more decimal digits.  ("-" never reaches int: split consumed it; the    *)
(* space was removed by clean_interval_string.)                            *)
(***************************************************************************)
RECURSIVE DecimalValue(_)
DecimalValue(ds) ==
    IF Len(ds) = 0 THEN 0
    ELSE 10 * DecimalValue(SubSeq(ds, 1, Len(ds) - 1)) + DigitValue(ds[Len(ds)])

AllDigits(ds) == Len(ds) > 0 /\ \A k \in 1..Len(ds) : IsDigit(ds[k])

Unsigned(tok) == IF Len(tok) > 0 /\ tok[1] = "+" THEN Tail(tok) ELSE tok

int(tok) ==
    IF AllDigits(Unsigned(tok))
    THEN [exc |-> "none", val |-> DecimalValue(Unsigned(tok))]
    ELSE [exc |-> "ValueError", val |-> 0]

(***************************************************************************)
(* a, b = map(int, tokens): map is lazy, so unpacking converts the first   *)
(* token, the second, and a third if there is one, and raises ValueError   *)
(* when the count is not two.                                              *)
(***************************************************************************)
\* A mutant of unpack2: indexing the tokens, which raises IndexError when short.
unpack2_by_index(toks) ==
    IF Len(toks) < 2 THEN "IndexError"
    ELSE IF \E k \in 1..2 : int(toks[k]).exc # "none" THEN "ValueError"
    ELSE "none"

\* line 39: the exception the unpacking raises, "none" when it succeeds
unpack2(toks) ==
    IF \E k \in 1..Len(toks) : k <= 3 /\ int(toks[k]).exc # "none" THEN "ValueError"
    ELSE IF Len(toks) # 2 THEN "ValueError"
    ELSE "none"

\* (None, None), line 42
NoneNone == [exc |-> "none", ok |-> FALSE, a |-> 0, b |-> 0]

\* lines 38-42; exc is the exception that leaves the function
parse_interval(interval_str) ==
    LET toks == split(interval_str)
        exc  == unpack2(toks)
    IN  IF exc = "none"
        THEN [exc |-> "none", ok |-> TRUE, a |-> int(toks[1]).val, b |-> int(toks[2]).val]
        ELSE IF exc = "ValueError" THEN NoneNone
        ELSE [exc |-> exc, ok |-> FALSE, a |-> 0, b |-> 0]

\* math.ceil((a + b) / 2) for non-negative a, b
CeilHalf(n) == (n + 1) \div 2

\* lines 129-134: the value of the row the draw falls in
row_value(interval_label) ==
    LET p == parse_interval(clean_interval_string(interval_label))
    IN  IF p.ok THEN CeilHalf(p.a + p.b) ELSE 0


(***************************************************************************)
(* The sampler.  A table is a sequence of rows; a row holds the interval   *)
(* label ('Interval Kelas ') and the cumulative percentage in tenths       *)
(* ('Prob Kumulatif * 100').                                               *)
(***************************************************************************)
\* random.randint(0, 99), lines 148-151
RandLow == 0

RandHigh == 99

DrawRange == RandLow..RandHigh

\* int(round(x)) of a float x >= 0 given in tenths: round half to even
round_pct(tenths) ==
    LET q == tenths \div 10
        r == tenths % 10
    IN  IF r < 5 THEN q
        ELSE IF r > 5 THEN q + 1
        ELSE IF q % 2 = 0 THEN q ELSE q + 1

\* lines 98-102: the 'Interval Angka Acak' column, one range per row
random_ranges(df) ==
    [k \in 1..Len(df) |->
        [low  |-> IF k = 1 THEN 0 ELSE round_pct(df[k - 1].cumpct) + 1,
         high |-> round_pct(df[k].cumpct)]]

RECURSIVE ScanRowsExclusive(_, _, _, _)
ScanRowsExclusive(df, k, lower_bound, random_number) ==
    IF k > Len(df) THEN 0
    ELSE LET upper_bound == round_pct(df[k].cumpct)
         IN  IF lower_bound <= random_number /\ random_number < upper_bound
             THEN k
             ELSE ScanRowsExclusive(df, k + 1, upper_bound + 1, random_number)

\* A mutant of matched_row: the upper bound excluded from the row's range.
matched_row_exclusive(df, random_number) == ScanRowsExclusive(df, 1, 0, random_number)

\* lines 126-128, 135: the loop from row k on, lower_bound as the loop holds it;
\* the index of the row it stops at, 0 when it runs out of rows
RECURSIVE ScanRows(_, _, _, _)
ScanRows(df, k, lower_bound, random_number) ==
    IF k > Len(df) THEN 0
    ELSE LET upper_bound == round_pct(df[k].cumpct)
         IN  IF lower_bound <= random_number /\ random_number <= upper_bound
             THEN k
             ELSE ScanRows(df, k + 1, upper_bound + 1, random_number)

\* lines 125-128, 135: lower_bound = 0, then the loop over the rows
matched_row(df, random_number) == ScanRows(df, 1, 0, random_number)

\* lines 121-136
get_simulation_value(df, random_number) ==
    LET k == matched_row(df, random_number)
    IN  IF k = 0 THEN 0 ELSE row_value(df[k].interval)

(***************************************************************************)
(* Tables the sampler is exercised on.                                     *)
(***************************************************************************)
Label10 == <<"9", "EN", "1", "0">>

Label50 == <<"4", "9", "-", "5", "0">>

LabelBad == <<"1", "0", "x">>

SampleLabels == {Label10, Label50, LabelBad}

\* 24.5, 59.4, 99.4 and 100 percent
SamplePcts == {245, 594, 994, 1000}

SampleRows == [interval : SampleLabels, cumpct : SamplePcts]

SampleTables == UNION {[1..n -> SampleRows] : n \in 1..MaxRows}

\* ranges [0-59] -> 10 and [60-99] -> 50
ScenarioTable ==
    <<[interval |-> Label10, cumpct |-> 594], [interval |-> Label50, cumpct |-> 994]>>

\* one class on [0-59], nothing above
GapTable == <<[interval |-> <<"1", "-", "2">>, cumpct |-> 594]>>

(***************************************************************************)
(* The simulation engine.                                                  *)
(***************************************************************************)
Categories == {"A", "B", "AB", "O"}

\* _distribusi_dict.get(c, pd.DataFrame()), lines 153-156
dict_get(d, c) == IF c \in DOMAIN d THEN d[c] ELSE <<>>

\* A mutant of total_of: group O left out of the sum.
total_without_o(sim) == sim["A"] + sim["B"] + sim["AB"]

\* line 158
total_of(sim) == sim["A"] + sim["B"] + sim["AB"] + sim["O"]

\* lines 159-162: sim / total_sim * 100 as the fraction num/den, 0 when total_sim is 0
share(s, total_sim) ==
    IF total_sim # 0 THEN [num |-> s * 100, den |-> total_sim] ELSE [num |-> 0, den |-> 1]

\* A mutant of period_of: the loop index used as it is.
period_zero_based(k) == k

\* 'Periode': i + 1, line 165
period_of(k) == k + 1

\* A mutant of sample_category: a missing table read as the table of group O.
sample_category_fallback(d, c, acak) ==
    get_simulation_value(IF c \in DOMAIN d THEN d[c] ELSE dict_get(d, "O"), acak[c])

\* lines 153-156
sample_category(d, c, acak) == get_simulation_value(dict_get(d, c), acak[c])

\* lines 153-170: the record of iteration k with draws acak
make_record(d, k, acak) ==
    LET sim   == [c \in Categories |-> sample_category(d, c, acak)]
        total == total_of(sim)
    IN  [Periode |-> period_of(k), acak |-> acak, sim |-> sim, total |-> total,
         pmk |-> [c \in Categories |-> share(sim[c], total)]]

\* st.cache_data hashes the arguments whose parameter name has no leading
\* underscore: of (_distribusi_dict, num_simulations) only num_simulations
cache_key(d, n) == n


(***************************************************************************)
(* Values of the variables a specification does not use.                   *)
(***************************************************************************)
NoLabel == <<>>

NoTable == <<>>

NoDict == <<>>

NoRecords == <<>>

EmptyCache == <<>>

ParseIdle ==
    /\ label = NoLabel /\ cleaned = NoLabel /\ parsed = NoneNone /\ value = 0

SampleIdle ==
    /\ table = NoTable /\ draw = 0 /\ result = 0 /\ ranges = <<>>

RunIdle ==
    /\ dict = NoDict /\ num_simulations = 0 /\ i = 0
    /\ simulation_results = NoRecords /\ returned = NoRecords /\ cache = EmptyCache

parseVars == <<label, cleaned, parsed, value>>

sampleVars == <<table, draw, result, ranges>>

runVars == <<dict, num_simulations, i, simulation_results, returned, cache>>

(***************************************************************************)
(* Parsing one label: lines 129-134 on the row's label.                    *)
(***************************************************************************)
InitParse ==
    /\ pc = "label"
    /\ label \in Labels
    /\ cleaned = NoLabel /\ parsed = NoneNone /\ value = 0
    /\ SampleIdle /\ RunIdle

ParseRow ==
    /\ pc = "label"
    /\ cleaned' = clean_interval_string(label)
    /\ parsed' = parse_interval(cleaned')
    /\ value' = row_value(label)
    /\ pc' = "parsed"
    /\ UNCHANGED <<label, sampleVars, runVars>>

NextParse == ParseRow

SpecParse == InitParse /\ [][NextParse]_vars

(***************************************************************************)
(* Sampling one table with one draw.                                       *)
(***************************************************************************)
InitSample ==
    /\ pc = "table"
    /\ table \in SampleTables \cup {ScenarioTable, GapTable}
    /\ draw = 0 /\ result = 0 /\ ranges = <<>>
    /\ ParseIdle /\ RunIdle

Sample ==
    /\ pc = "table"
    /\ \E d \in DrawRange :
          /\ draw' = d
          /\ result' = get_simulation_value(table, d)
    /\ pc' = "sampled"
    /\ UNCHANGED <<table, ranges, parseVars, runVars>>

\* display_distribution_table, lines 96-102
Display ==
    /\ pc = "table"
    /\ ranges' = random_ranges(table)
    /\ pc' = "displayed"
    /\ UNCHANGED <<table, draw, result, parseVars, runVars>>

NextSample == Sample \/ Display

SpecSample == InitSample /\ [][NextSample]_vars


(***************************************************************************)
(* run_monte_carlo_simulation: one call, lines 143-174.                    *)
(***************************************************************************)
\* The draws the model takes from random.randint(0, 99): the two sides of
\* ScenarioTable's class boundary.
DrawChoices == {59, 60}

RunTables == {ScenarioTable, GapTable}

\* Every mapping of some of the four groups to a table.
DictChoices == UNION {[S -> RunTables] : S \in SUBSET Categories}

InitRun ==
    /\ pc = "loop"
    /\ dict \in DictChoices
    /\ num_simulations \in 1..MaxPeriods
    /\ i = 0
    /\ simulation_results = NoRecords
    /\ returned = NoRecords
    /\ cache = EmptyCache
    /\ ParseIdle /\ SampleIdle

\* one iteration of the loop of line 147
Iterate ==
    /\ pc = "loop"
    /\ i < num_simulations
    /\ \E acak \in [Categories -> DrawChoices] :
          simulation_results' = Append(simulation_results, make_record(dict, i, acak))
    /\ i' = i + 1
    /\ UNCHANGED <<pc, dict, num_simulations, returned, cache, parseVars, sampleVars>>

\* line 174, and st.cache_data storing the value under the call's key
Return ==
    /\ pc = "loop"
    /\ i = num_simulations
    /\ returned' = simulation_results
    /\ cache' = [k \in DOMAIN cache \cup {cache_key(dict, num_simulations)} |->
                    IF k = cache_key(dict, num_simulations)
                    THEN simulation_results ELSE cache[k]]
    /\ pc' = "returned"
    /\ UNCHANGED <<dict, num_simulations, i, simulation_results, parseVars, sampleVars>>

NextRun == Iterate \/ Return

SpecRun == InitRun /\ [][NextRun]_vars

(***************************************************************************)
(* A sequence of calls of run_monte_carlo_simulation through st.cache_data *)
(* (line 138), with the cache cleared by the button of lines 284-285.      *)
(***************************************************************************)
FullDict == [c \in Categories |-> ScenarioTable]

NoADict == [c \in Categories \ {"A"} |-> ScenarioTable]

CallDicts == {FullDict, NoADict}

InitCache ==
    /\ pc = "idle"
    /\ RunIdle
    /\ ParseIdle /\ SampleIdle

\* a call whose key is cached: the stored value is returned, the body does not run
CallHit ==
    /\ pc \in {"idle", "returned"}
    /\ \E d \in CallDicts, n \in 1..MaxPeriods :
          /\ cache_key(d, n) \in DOMAIN cache
          /\ dict' = d
          /\ num_simulations' = n
          /\ returned' = cache[cache_key(d, n)]
    /\ pc' = "returned"
    /\ UNCHANGED <<i, simulation_results, cache, parseVars, sampleVars>>

\* a call whose key is not cached: the body runs from line 143
CallMiss ==
    /\ pc \in {"idle", "returned"}
    /\ \E d \in CallDicts, n \in 1..MaxPeriods :
          /\ cache_key(d, n) \notin DOMAIN cache
          /\ dict' = d
          /\ num_simulations' = n
    /\ i' = 0
    /\ simulation_results' = NoRecords
    /\ returned' = NoRecords
    /\ pc' = "loop"
    /\ UNCHANGED <<cache, parseVars, sampleVars>>

\* st.cache_data.clear(), line 285
ClearCache ==
    /\ pc \in {"idle", "returned"}
    /\ cache # EmptyCache
    /\ cache' = EmptyCache
    /\ pc' = "idle"
    /\ UNCHANGED <<dict, num_simulations, i, simulation_results, returned,
                   parseVars, sampleVars>>

NextCache == CallHit \/ CallMiss \/ Iterate \/ Return \/ ClearCache

SpecCache == InitCache /\ [][NextCache]_vars


(***************************************************************************)
(* Properties of the parser (SpecParse).                                   *)
(***************************************************************************)
Dashes == {"-", "EN", "EM"}

\* the label without its spaces and commas
NoiseFree(l) == SelectSeq(l, LAMBDA c : c \notin {" ", ","})

\* s is digits, one dash at position k, digits, and the first number is not the larger
IsLowDashHigh(s, k) ==
    /\ s[k] \in Dashes
    /\ AllDigits(SubSeq(s, 1, k - 1))
    /\ AllDigits(SubSeq(s, k + 1, Len(s)))
    /\ DecimalValue(SubSeq(s, 1, k - 1)) <= DecimalValue(SubSeq(s, k + 1, Len(s)))

\* C4: a label made of two non-negative integers low <= high joined by an ASCII
\* hyphen, an en dash or an em dash, with any spaces and commas added, is cleaned
\* and parsed to exactly (low, high).
C4_ParseCleanRoundTrip ==
    pc = "parsed" =>
        \A k \in 1..Len(NoiseFree(label)) :
            IsLowDashHigh(NoiseFree(label), k) =>
                parsed = [exc |-> "none", ok |-> TRUE,
                          a |-> DecimalValue(SubSeq(NoiseFree(label), 1, k - 1)),
                          b |-> DecimalValue(SubSeq(NoiseFree(label), k + 1,
                                                    Len(NoiseFree(label))))]

\* an em dash label with a space and a comma, parsed to (0, 1)
C4_Witness ==
    /\ pc = "parsed"
    /\ label = <<"0", " ", "EM", "1">>
    /\ parsed = [exc |-> "none", ok |-> TRUE, a |-> 0, b |-> 1]

\* what int() takes as an integer among the characters of the model
IsIntegerToken(t) ==
    \/ AllDigits(t)
    \/ Len(t) > 1 /\ t[1] = "+" /\ AllDigits(Tail(t))

HyphenCount(s) == Cardinality({k \in 1..Len(s) : s[k] = "-"})

\* no hyphen, more than two tokens, an empty token or a non-integer token
Malformed(s) ==
    \/ HyphenCount(s) # 1
    \/ \E k \in 1..Len(s) :
          /\ s[k] = "-"
          /\ \/ ~IsIntegerToken(SubSeq(s, 1, k - 1))
             \/ ~IsIntegerToken(SubSeq(s, k + 1, Len(s)))

\* C5: for a malformed cleaned label parse_interval returns (None, None) and
\* raises nothing, and the value sampled for that row is 0.
C5_MalformedGivesNoneAndZero ==
    (pc = "parsed" /\ Malformed(cleaned)) => (parsed = NoneNone /\ value = 0)

\* a label whose second token is empty has been cleaned and parsed
C5_Witness ==
    /\ pc = "parsed"
    /\ label = <<"1", "EN", " ">>
    /\ cleaned = <<"1", "-">>
    /\ parsed = NoneNone
    /\ value = 0

\* C10: the docstring's label '103(a-circumflex)-130' is cleaned to '103-130' and
\* parsed to (103, 130).
C10_DocExampleCleans ==
    (pc = "parsed" /\ label = DocLabel) =>
        /\ cleaned = DocCleaned
        /\ parsed = [exc |-> "none", ok |-> TRUE, a |-> 103, b |-> 130]

(***************************************************************************)
(* Properties of the ranges and of the sampler (SpecSample).               *)
(***************************************************************************)
\* the cumulative percentages strictly increase and end at 100
StrictlyIncreasesTo100(df) ==
    /\ Len(df) >= 1
    /\ \A k \in 1..(Len(df) - 1) : df[k].cumpct < df[k + 1].cumpct
    /\ df[Len(df)].cumpct = 1000

RangeSet(r) == r.low..r.high

\* C1: for a table whose cumulative percentages strictly increase and end at 100
\* the ranges built in row order cover exactly 0..99, no value twice, none
\* above 99.
C1_RangesPartition0To99 ==
    (pc = "displayed" /\ StrictlyIncreasesTo100(table)) =>
        /\ UNION {RangeSet(ranges[k]) : k \in 1..Len(ranges)} = DrawRange
        /\ \A j, k \in 1..Len(ranges) :
              j # k => RangeSet(ranges[j]) \cap RangeSet(ranges[k]) = {}
        /\ \A k \in 1..Len(ranges) : \A v \in RangeSet(ranges[k]) : v <= RandHigh

\* the rounded cumulative percentages strictly increase and end at 100
RoundedStrictlyIncreasesTo100(df) ==
    /\ Len(df) >= 1
    /\ \A k \in 1..(Len(df) - 1) : round_pct(df[k].cumpct) < round_pct(df[k + 1].cumpct)
    /\ round_pct(df[Len(df)].cumpct) = 100

\* the draws of 0..99 for which the sampler selects row k
DrawsOfRow(df, k) == {d \in DrawRange : matched_row(df, d) = k}

\* C2: for a table whose rounded cumulative percentages strictly increase to 100,
\* the number of draws of 0..99 that select row k is round(cum_k) - round(cum_(k-1)),
\* with cum_0 = 0, for every row.
C2_RowSharesProportional ==
    (pc = "sampled" /\ RoundedStrictlyIncreasesTo100(table)) =>
        \A k \in 1..Len(table) :
            Cardinality(DrawsOfRow(table, k)) =
                round_pct(table[k].cumpct)
                    - (IF k = 1 THEN 0 ELSE round_pct(table[k - 1].cumpct))

\* the rows whose range, as displayed, holds the draw
RowsHolding(df, d) ==
    {k \in 1..Len(df) : random_ranges(df)[k].low <= d /\ d <= random_ranges(df)[k].high}

FirstOf(S) == CHOOSE k \in S : \A j \in S : k <= j

\* ceil((low + high) / 2) of the row's interval, 0 for a label that does not parse
Midpoint(interval_label) ==
    LET p == parse_interval(clean_interval_string(interval_label))
    IN  IF p.ok THEN ((p.a + p.b) \div 2) + ((p.a + p.b) % 2) ELSE 0

\* C3: get_simulation_value returns the midpoint, rounded up, of the first row in
\* stored order whose range holds the draw, and 0 when no row's range holds it;
\* on the table with ranges [0-59] -> 10 and [60-99] -> 50, draw 59 gives 10 and
\* draw 60 gives 50.
C3_FirstMatchingRow ==
    pc = "sampled" =>
        /\ result = IF RowsHolding(table, draw) = {} THEN 0
                    ELSE Midpoint(table[FirstOf(RowsHolding(table, draw))].interval)
        /\ (table = ScenarioTable /\ draw = 59) => result = 10
        /\ (table = ScenarioTable /\ draw = 60) => result = 50

\* the scenario's draw 60 has been sampled to 50
C3_Witness ==
    /\ pc = "sampled"
    /\ table = ScenarioTable
    /\ random_ranges(table) = <<[low |-> 0, high |-> 59], [low |-> 60, high |-> 99]>>
    /\ draw = 60
    /\ result = 50

(***************************************************************************)
(* Properties of one run (SpecRun).                                        *)
(***************************************************************************)
\* the records appended so far are numbered 1, 2, ... in order
NumberedInOrder(records) == \A k \in 1..Len(records) : records[k].Periode = k

\* C6: a call with periods > 0 returns exactly that many records, numbered
\* 1, 2, ..., periods in order; records are appended in period order and an
\* appended record is never changed by a later iteration.
C6_RecordsInPeriodOrder ==
    /\ [](/\ NumberedInOrder(simulation_results)
          /\ Len(simulation_results) = i
          /\ pc = "returned" =>
                /\ Len(returned) = num_simulations
                /\ NumberedInOrder(returned))
    /\ [][/\ Len(simulation_results') >= Len(simulation_results)
          /\ \A k \in 1..Len(simulation_results) :
                simulation_results'[k] = simulation_results[k]
          /\ \A k \in 1..Len(returned) : returned'[k] = returned[k]]_vars

\* a call for two periods has returned its two records
C6_Witness ==
    /\ pc = "returned"
    /\ num_simulations = 2
    /\ Len(returned) = 2
    /\ returned[1].Periode = 1
    /\ returned[2].Periode = 2

SumOfSims(r) == r.sim["A"] + r.sim["B"] + r.sim["AB"] + r.sim["O"]

SumOfShareNums(r) == r.pmk["A"].num + r.pmk["B"].num + r.pmk["AB"].num + r.pmk["O"].num

RecordConsistent(r) ==
    /\ r.total = SumOfSims(r)
    /\ \A c \in Categories : r.pmk[c].den # 0
    /\ r.total > 0 =>
          /\ \A c \in Categories :
                r.pmk[c].num * r.total = r.sim[c] * 100 * r.pmk[c].den
          /\ \A c \in Categories : r.pmk[c].den = r.total
          /\ SumOfShareNums(r) = 100 * r.total
    /\ r.total = 0 => \A c \in Categories : r.pmk[c].num = 0

\* C7: in every record total is the sum of the four sampled values; when total > 0
\* each share is sampled/total*100 and the four shares sum to 100; when total = 0
\* all four shares are 0 and nothing is divided by zero.
C7_TotalAndShares ==
    /\ \A k \in 1..Len(simulation_results) : RecordConsistent(simulation_results[k])
    /\ \A k \in 1..Len(returned) : RecordConsistent(returned[k])

\* a run has produced a record with total 0 and then one with total > 0
C7_Witness ==
    /\ pc = "returned"
    /\ Len(returned) = 2
    /\ returned[1].total = 0
    /\ returned[1].pmk["A"] = [num |-> 0, den |-> 1]
    /\ returned[2].total = 2
    /\ returned[2].sim["A"] = 2
    /\ returned[2].pmk["A"] = [num |-> 200, den |-> 2]

AbsentZero(records) ==
    \A c \in Categories \ DOMAIN dict :
        \A k \in 1..Len(records) :
            /\ records[k].sim[c] = 0
            /\ records[k].pmk[c].num = 0
            /\ records[k].total =
                  SumOfSims([sim |-> [x \in Categories |->
                                         IF x = c THEN 0 ELSE records[k].sim[x]]])

C9_ReturnedFromOwnTables ==
    pc = "returned" =>
        \A k \in 1..Len(returned) : \A c \in Categories :
            returned[k].sim[c] =
                get_simulation_value(dict_get(dict, c), returned[k].acak[c])

====
